---- MODULE Spec2Model ----
(***************************************************************************)
(* Model of src/src/App.jsx: the App component of the dictionary UI.       *)
(*                                                                         *)
(* A JavaScript string is modelled as a Text: a sequence of chunks, each   *)
(* chunk a TLA+ string.  The text typed into the input is a sequence of    *)
(* one-character chunks, so that String.prototype.trim can be computed.    *)
(* A template literal is the concatenation of its chunks.                  *)
(* An optional value (undefined / null / absent property) is a sequence of *)
(* length 0 (absent) or 1 (present).                                       *)
(*                                                                         *)
(* State is observed at React commits: the state updates a handler queues  *)
(* between two suspension points are applied together.                     *)
(***************************************************************************)
EXTENDS Integers, Sequences, FiniteSets, TLC

VARIABLES
    word,           \* useState(''): the text in the input
    definitions,    \* useState([]): the results on display
    isLoading,      \* useState(false)
    error,          \* useState(null): Null or Some(message)
    searchHistory,  \* useState([])
    requests,       \* the lookups awaited by a call of handleSearch, oldest first
    calls           \* how each call of handleSearch so far left its guard

vars == <<word, definitions, isLoading, error, searchHistory, requests, calls>>

(* ------------------------------ bounds --------------------------------- *)

\* number of submit events in one behaviour
MaxSubmits == 2

(* ------------------------------ texts ---------------------------------- *)

Null == <<>>
Some(v) == <<v>>

Whitespace == {" "}

\* the values the input's onChange delivers: empty, whitespace only, plain
\* words, and a word with leading and trailing whitespace
Inputs == {<<>>, <<" ">>, <<"a">>, <<"b">>, <<" ", "a">>, <<" ", "a", " ">>}

RECURSIVE TrimStart(_)
TrimStart(s) ==
    IF s = <<>> THEN s
    ELSE IF Head(s) \in Whitespace THEN TrimStart(Tail(s)) ELSE s

RECURSIVE TrimEnd(_)
TrimEnd(s) ==
    IF s = <<>> THEN s
    ELSE IF s[Len(s)] \in Whitespace THEN TrimEnd(SubSeq(s, 1, Len(s) - 1)) ELSE s

\* String.prototype.trim
Trim(s) == TrimEnd(TrimStart(s))

Digits == <<"0", "1", "2", "3", "4", "5", "6", "7", "8", "9">>

\* a number inside a template literal: its decimal digits
RECURSIVE DecStr(_)
DecStr(n) ==
    IF n < 10 THEN <<Digits[n + 1]>>
    ELSE DecStr(n \div 10) \o <<Digits[(n % 10) + 1]>>

\* Array.prototype.join on an array of already stringified elements
RECURSIVE Join(_, _)
Join(texts, sep) ==
    IF texts = <<>> THEN <<>>
    ELSE IF Len(texts) = 1 THEN texts[1]
    ELSE texts[1] \o sep \o Join(Tail(texts), sep)

RemoveAt(s, i) == SubSeq(s, 1, i - 1) \o SubSeq(s, i + 1, Len(s))

(* ------------------------ the lookup collaborator ---------------------- *)

\* an element of the response array: a suggestion string or an entry object
Suggestion(s) ==
    [t |-> "string", s |-> s, meta |-> Null, fl |-> Null,
     shortdef |-> Null, audio |-> Null]

\* meta: the entry's meta.id; fl; shortdef: the list of short definitions;
\* audio: hwi.prs[0].sound.audio.  Each is absent (Null) or present (Some).
Entry(id, fl, shortdef, audio) ==
    [t |-> "object", s |-> <<>>, meta |-> id, fl |-> fl,
     shortdef |-> shortdef, audio |-> audio]

EntryFull ==
    Entry(Some(<<"hello">>), Some(<<"verb">>),
          Some(<< <<"to greet">>, <<"to welcome">> >>), Some(<<"hello001">>))
\* a homograph with nothing but its id
EntryBare == Entry(Some(<<"hello:2">>), Null, Null, Null)
\* an empty list of short definitions
EntryNoDefs == Entry(Some(<<"hello:3">>), Some(<<"noun">>), Some(<<>>), Null)
\* empty strings where a definition and an audio name are expected
EntryEmpty == Entry(Some(<<"hello:4">>), Some(<<"noun">>), Some(<< <<>> >>), Some(<<>>))
\* an object without meta
EntryNoMeta == Entry(Null, Some(<<"noun">>), Some(<< <<"x">> >>), Null)

\* a response body: not JSON, or JSON that parses to null, to an object
\* without length, or to an array
InvalidJson == [t |-> "invalid", items |-> <<>>]
JsonNull == [t |-> "null", items |-> <<>>]
JsonObject == [t |-> "object", items |-> <<>>]
Array(items) == [t |-> "array", items |-> items]

Bodies ==
    { InvalidJson,
      JsonNull,
      JsonObject,
      Array(<<>>),
      Array(<<Suggestion(<<"xyz">>), Suggestion(<<"zyx">>)>>),
      Array(<<Suggestion(<<"xyz">>), EntryFull>>),
      Array(<<EntryFull, EntryBare>>),
      Array(<<EntryNoDefs, EntryEmpty>>),
      Array(<<EntryFull, EntryNoMeta>>) }

\* fetch rejects (no response), or resolves with a status and a body
Rejected(message) ==
    [kind |-> "rejected", message |-> message, status |-> 0, body |-> InvalidJson]
Response(status, body) ==
    [kind |-> "response", message |-> <<>>, status |-> status, body |-> body]

Replies ==
    {Rejected(<<"Failed to fetch">>), Response(503, InvalidJson),
     Response(404, Array(<<EntryFull>>))}
        \cup {Response(200, b) : b \in Bodies}

(* ----------------------------- handleSearch ---------------------------- *)

\* the history keeps its 10 most recent words
HistoryLimit == 10

\* faulty variant: the guard without trim
IsBlankUntrimmed(w) == w = <<>>

\* !word.trim()
IsBlank(w) == Trim(w) = <<>>

\* the word put into the request URL
QueryOf(w) == w

\* faulty variant: the status is never looked at
OkAlways(status) == TRUE

\* response.ok
Ok(status) == status \in 200..299

\* data.length === 0 || typeof data[0] === 'string'
IsNoMatch(items) == Len(items) = 0 \/ items[1].t = "string"

\* an array element as Array.prototype.join prints it
StringOf(el) == IF el.t = "string" THEN el.s ELSE <<"[object Object]">>

\* faulty variant: join with its default separator
NoMatchMessageDefaultJoin(w, items) ==
    <<"No definition found for \"">> \o w \o <<"\". Did you mean: ">>
        \o Join([k \in 1..Len(items) |-> StringOf(items[k])], <<",">>) \o <<"?">>

NoMatchMessage(w, items) ==
    <<"No definition found for \"">> \o w \o <<"\". Did you mean: ">>
        \o Join([k \in 1..Len(items) |-> StringOf(items[k])], <<", ">>) \o <<"?">>

\* faulty variant: the last short definition instead of the first
DefinitionOfLast(entry) ==
    IF /\ entry.shortdef # Null
       /\ Len(entry.shortdef[1]) > 0
       /\ entry.shortdef[1][Len(entry.shortdef[1])] # <<>>
    THEN entry.shortdef[1][Len(entry.shortdef[1])]
    ELSE <<"No definition available">>

\* entry.shortdef?.[0] || 'No definition available'
DefinitionOf(entry) ==
    IF /\ entry.shortdef # Null
       /\ Len(entry.shortdef[1]) > 0
       /\ entry.shortdef[1][1] # <<>>
    THEN entry.shortdef[1][1]
    ELSE <<"No definition available">>

\* entry.hwi?.prs?.[0]?.sound?.audio || null
ExamplesOf(entry) ==
    IF entry.audio # Null /\ entry.audio[1] # <<>> THEN entry.audio ELSE Null

\* the object data.map builds from one entry (entry.meta is present)
ToDefinition(entry) ==
    [word |-> entry.meta[1],
     partOfSpeech |-> entry.fl,
     definition |-> DefinitionOf(entry),
     examples |-> ExamplesOf(entry)]

\* faulty variant: the word is pushed without removing its earlier occurrence
NewHistoryUnfiltered(prev, w) ==
    LET newHistory == <<w>> \o prev
    IN  SubSeq(newHistory, 1, IF Len(newHistory) < HistoryLimit
                              THEN Len(newHistory) ELSE HistoryLimit)

\* [word, ...prev.filter(item => item !== word)].slice(0, 10)
NewHistory(prev, w) ==
    LET newHistory == <<w>> \o SelectSeq(prev, LAMBDA item : item # w)
    IN  SubSeq(newHistory, 1, IF Len(newHistory) < HistoryLimit
                              THEN Len(newHistory) ELSE HistoryLimit)

\* err.message of what the try block throws on this reply, or Null when it
\* runs to its end
Thrown(reply) ==
    IF reply.kind = "rejected" THEN Some(reply.message)
    ELSE IF ~Ok(reply.status) THEN Some(<<"API error: ">> \o DecStr(reply.status))
    ELSE IF reply.body.t = "invalid" THEN Some(<<"Unexpected end of JSON input">>)
    ELSE IF reply.body.t = "null"
         THEN Some(<<"Cannot read properties of null (reading 'length')">>)
    ELSE IF reply.body.t = "object" THEN Some(<<"data.map is not a function">>)
    ELSE IF IsNoMatch(reply.body.items) THEN Null
    ELSE IF \E i \in 1..Len(reply.body.items) : reply.body.items[i].meta = Null
         THEN Some(<<"Cannot read properties of undefined (reading 'id')">>)
    ELSE Null

CatchMessage(message) == <<"Failed to fetch definition: ">> \o message

\* faulty variant: the catch block without setDefinitions([])
CaughtKeepingResults(defs, history, message) ==
    [definitions |-> defs,
     error |-> Some(CatchMessage(message)),
     searchHistory |-> history]

\* the catch block
Caught(defs, history, message) ==
    [definitions |-> <<>>,
     error |-> Some(CatchMessage(message)),
     searchHistory |-> history]

\* faulty variant: an attempted word is pushed to the history too
NoMatchRemembered(defs, history, w, items) ==
    [definitions |-> <<>>,
     error |-> Some(NoMatchMessage(w, items)),
     searchHistory |-> NewHistory(history, w)]

\* the branch taken for an empty array or an array of suggestions
NoMatch(defs, history, w, items) ==
    [definitions |-> <<>>,
     error |-> Some(NoMatchMessage(w, items)),
     searchHistory |-> history]

\* the branch taken for an array of entries
Found(defs, history, w, items) ==
    [definitions |-> [k \in 1..Len(items) |-> ToDefinition(items[k])],
     error |-> Null,
     searchHistory |-> NewHistory(history, w)]

\* faulty variant: setIsLoading(false) at the end of the try block, no finally
LoadingAfterTryEnd(thrown) == thrown # Null

\* isLoading once the handler has run through finally
LoadingAfter(thrown) == FALSE

\* the input is disabled while loading
InputDisabled == isLoading

\* the submit button is disabled while loading or for a blank word
ButtonDisabled == isLoading \/ IsBlank(word)

\* faulty variant: nothing is disabled while loading
CanSubmitAnytime == TRUE

\* a submit event reaches the form from the button or from Enter in the input
CanSubmit == ~ButtonDisabled \/ ~InputDisabled

(* ------------------------------- actions ------------------------------- *)

Init ==
    /\ word = <<>>
    /\ definitions = <<>>
    /\ isLoading = FALSE
    /\ error = Null
    /\ searchHistory = <<>>
    /\ requests = <<>>
    /\ calls = <<>>

\* onChange of the input
setWord(w) ==
    /\ ~InputDisabled
    /\ word' = w
    /\ UNCHANGED <<definitions, isLoading, error, searchHistory, requests, calls>>

\* a click on the i-th history tag
handleHistoryClick(i) ==
    /\ word' = searchHistory[i]
    /\ UNCHANGED <<definitions, isLoading, error, searchHistory, requests, calls>>

\* onSubmit of the form: handleSearch up to its first await
handleSearch ==
    /\ CanSubmit
    /\ Len(calls) < MaxSubmits
    /\ IF IsBlank(word)
       THEN /\ calls' = Append(calls, "returned")
            /\ UNCHANGED <<isLoading, error, requests>>
       ELSE /\ calls' = Append(calls, "searched")
            /\ isLoading' = TRUE
            /\ error' = Null
            /\ requests' = Append(requests,
                   [word |-> word, query |-> QueryOf(word), reply |-> Null])
    /\ UNCHANGED <<word, definitions, searchHistory>>

\* the lookup collaborator settles the i-th request
Respond(i, reply) ==
    /\ requests[i].reply = Null
    /\ requests' = [requests EXCEPT ![i].reply = Some(reply)]
    /\ UNCHANGED <<word, definitions, isLoading, error, searchHistory, calls>>

\* handleSearch from its await to its end, for the i-th request
Resume(i) ==
    /\ requests[i].reply # Null
    /\ LET w == requests[i].word
           reply == requests[i].reply[1]
           thrown == Thrown(reply)
           after == IF thrown # Null
                    THEN Caught(definitions, searchHistory, thrown[1])
                    ELSE IF IsNoMatch(reply.body.items)
                    THEN NoMatch(definitions, searchHistory, w, reply.body.items)
                    ELSE Found(definitions, searchHistory, w, reply.body.items)
       IN  /\ definitions' = after.definitions
           /\ error' = after.error
           /\ searchHistory' = after.searchHistory
           /\ isLoading' = LoadingAfter(thrown)
    /\ requests' = RemoveAt(requests, i)
    /\ UNCHANGED <<word, calls>>

Next ==
    \/ \E w \in Inputs : setWord(w)
    \/ \E i \in 1..Len(searchHistory) : handleHistoryClick(i)
    \/ handleSearch
    \/ \E i \in 1..Len(requests) : \E reply \in Replies : Respond(i, reply)
    \/ \E i \in 1..Len(requests) : Resume(i)

Spec == Init /\ [][Next]_vars

\* the lookup settles and the continuation of handleSearch is scheduled
LiveSpec ==
    /\ Spec
    /\ WF_vars(\E i \in 1..Len(requests) : \E reply \in Replies : Respond(i, reply))
    /\ WF_vars(\E i \in 1..Len(requests) : Resume(i))

\* histories that nine and ten successful searches of distinct words leave
SeedHistory ==
    << <<"c">>, <<"d">>, <<"b">>, <<"e">>, <<"f">>, <<"g">>, <<"h">>, <<"i">>,
       <<"j">>, <<"k">> >>

InitSeeded ==
    /\ word = <<>>
    /\ definitions = <<>>
    /\ isLoading = FALSE
    /\ error = Null
    /\ searchHistory \in {<<>>, SubSeq(SeedHistory, 1, HistoryLimit - 1),
                          SubSeq(SeedHistory, 1, HistoryLimit)}
    /\ requests = <<>>
    /\ calls = <<>>

SpecSeeded == InitSeeded /\ [][Next]_vars

(* ------------------------- vocabulary of the claims -------------------- *)

Range(s) == {s[i] : i \in 1..Len(s)}

Without(s, w) == SelectSeq(s, LAMBDA item : item # w)

\* the step in which the call that awaits request i runs to its end
Completes(i) ==
    /\ i \in 1..Len(requests)
    /\ requests[i].reply # Null
    /\ requests' = RemoveAt(requests, i)

\* a record with a headword identifier
IsEntryRecord(el) == el.t = "object" /\ el.meta # Null

Parsed(reply) ==
    reply.kind = "response" /\ reply.status \in 200..299 /\ reply.body.t = "array"

\* the three shapes of a reply, and a reply whose processing throws
SuccessReply(reply) ==
    /\ Parsed(reply)
    /\ reply.body.items # <<>>
    /\ \A el \in Range(reply.body.items) : IsEntryRecord(el)

NoMatchReply(reply) ==
    /\ Parsed(reply)
    /\ \A el \in Range(reply.body.items) : el.t = "string"

FailureReply(reply) ==
    \/ reply.kind = "rejected"
    \/ reply.kind = "response" /\ reply.status \notin 200..299

ExceptionReply(reply) ==
    /\ reply.kind = "response" /\ reply.status \in 200..299
    /\ \/ reply.body.t # "array"
       \/ /\ reply.body.items # <<>>
          /\ reply.body.items[1].t = "object"
          /\ \E el \in Range(reply.body.items) : ~IsEntryRecord(el)

Placeholder == <<"No definition available">>

(* -------------------------------- claims ------------------------------- *)

\* C1: loading is true only while a lookup is in flight, every completion
\* of a search leaves loading false, and every search that starts is
\* eventually followed by loading = false, whatever the outcome.
LoadingCleared ==
    /\ [](isLoading => requests # <<>>)
    /\ [][\A i \in 1..Len(requests) : Completes(i) => ~isLoading']_vars
    /\ (isLoading ~> ~isLoading)

\* a search whose response processing threw has completed with loading false
LoadingClearedWitness ==
    /\ ~isLoading
    /\ calls = <<"searched">>
    /\ requests = <<>>
    /\ error = Some(<<"Failed to fetch definition: ", "data.map is not a function">>)

\* C2: the history has at most 10 entries and no duplicates; a successful
\* search for a word already in the history moves it to index 0, keeps the
\* length and keeps the relative order of the other entries.
HistoryBoundedDistinct ==
    /\ [](/\ Len(searchHistory) <= 10
          /\ Cardinality(Range(searchHistory)) = Len(searchHistory))
    /\ [][\A i \in 1..Len(requests) :
            (/\ Completes(i)
             /\ SuccessReply(requests[i].reply[1])
             /\ requests[i].word \in Range(searchHistory))
            => /\ Len(searchHistory') = Len(searchHistory)
               /\ searchHistory'[1] = requests[i].word
               /\ Without(searchHistory', requests[i].word)
                    = Without(searchHistory, requests[i].word)]_vars

\* from a full history: a new word was pushed (the oldest dropped), then a
\* word of the history was searched again and moved to the front
HistoryBoundedDistinctWitness ==
    searchHistory = << <<"b">>, <<"a">>, <<"c">>, <<"d">>, <<"e">>, <<"f">>,
                       <<"g">>, <<"h">>, <<"i">>, <<"j">> >>

\* what C3 says a result carries
ClaimedResult(entry) ==
    [word |-> entry.meta[1],
     partOfSpeech |-> entry.fl,
     definition |-> IF entry.shortdef # Null /\ entry.shortdef[1] # <<>>
                    THEN entry.shortdef[1][1] ELSE Placeholder,
     examples |-> entry.audio]

\* the same, with an empty string counted as no definition and as no
\* pronunciation identifier
AmendedResult(entry) ==
    [word |-> entry.meta[1],
     partOfSpeech |-> entry.fl,
     definition |-> IF /\ entry.shortdef # Null
                       /\ entry.shortdef[1] # <<>>
                       /\ entry.shortdef[1][1] # <<>>
                    THEN entry.shortdef[1][1] ELSE Placeholder,
     examples |-> IF entry.audio # Null /\ entry.audio[1] # <<>>
                  THEN entry.audio ELSE Null]

\* C3 as stated: after a successful lookup the results have the length and
\* order of the response, each carrying the entry's headword, part of
\* speech, first short definition (the placeholder when it has none) and
\* pronunciation identifier (null when it has none), and error is null.
ResultsMirrorResponse ==
    [][\A i \in 1..Len(requests) :
        (Completes(i) /\ SuccessReply(requests[i].reply[1]))
        => LET items == requests[i].reply[1].body.items
           IN  /\ Len(definitions') = Len(items)
               /\ \A k \in 1..Len(items) : definitions'[k] = ClaimedResult(items[k])
               /\ error' = Null]_vars

\* C3 amended: as C3, and the placeholder also stands for a first short
\* definition that is the empty string, and null also for a pronunciation
\* identifier that is the empty string.
ResultsMirrorResponseAmended ==
    [][\A i \in 1..Len(requests) :
        (Completes(i) /\ SuccessReply(requests[i].reply[1]))
        => LET items == requests[i].reply[1].body.items
           IN  /\ Len(definitions') = Len(items)
               /\ \A k \in 1..Len(items) : definitions'[k] = AmendedResult(items[k])
               /\ error' = Null]_vars

\* the results of a response of two entries, in the order of the response:
\* one with an empty list of short definitions, one whose first short
\* definition and pronunciation identifier are empty strings
ResultsMirrorResponseWitness ==
    /\ ~isLoading
    /\ error = Null
    /\ definitions =
         << [word |-> <<"hello:3">>, partOfSpeech |-> Some(<<"noun">>),
             definition |-> <<"No definition available">>, examples |-> Null],
            [word |-> <<"hello:4">>, partOfSpeech |-> Some(<<"noun">>),
             definition |-> <<"No definition available">>, examples |-> Null] >>

\* the suggestions in response order, separated by ", "
RECURSIVE CommaJoined(_)
CommaJoined(items) ==
    IF items = <<>> THEN <<>>
    ELSE LET n == Len(items)
         IN  IF n = 1 THEN items[1].s
             ELSE CommaJoined(SubSeq(items, 1, n - 1)) \o <<", ">> \o items[n].s

\* C4: after a no-match response (an empty list or a list of suggestion
\* strings) results is empty and error is
\* 'No definition found for "<query>". Did you mean: <suggestions>?'
NoMatchReported ==
    [][\A i \in 1..Len(requests) :
        (Completes(i) /\ NoMatchReply(requests[i].reply[1]))
        => /\ definitions' = <<>>
           /\ error' = Some(<<"No definition found for \"">> \o requests[i].word
                            \o <<"\". Did you mean: ">>
                            \o CommaJoined(requests[i].reply[1].body.items)
                            \o <<"?">>)]_vars

\* the query "a" answered with the suggestions xyz and zyx
NoMatchReportedWitness ==
    /\ ~isLoading
    /\ definitions = <<>>
    /\ error = Some(<<"No definition found for \"", "a", "\". Did you mean: ",
                      "xyz", ", ", "zyx", "?">>)

\* C5: after a transport or HTTP failure, or an exception while the response
\* is processed, results is empty and error is 'Failed to fetch definition: '
\* followed by the failure detail, 'API error: <status>' for an HTTP status.
FailureReported ==
    [][\A i \in 1..Len(requests) :
        LET reply == requests[i].reply[1]
        IN  (Completes(i) /\ (FailureReply(reply) \/ ExceptionReply(reply)))
            => /\ definitions' = <<>>
               /\ error' # Null
               /\ Len(error'[1]) > 1
               /\ error'[1][1] = "Failed to fetch definition: "
               /\ reply.kind = "rejected"
                    => Tail(error'[1]) = reply.message
               /\ (reply.kind = "response" /\ reply.status = 503)
                    => Tail(error'[1]) = <<"API error: ", "5", "0", "3">>
               /\ (reply.kind = "response" /\ reply.status = 404)
                    => Tail(error'[1]) = <<"API error: ", "4", "0", "4">>]_vars

\* results were on display (one earlier success), then a lookup got HTTP 503
FailureReportedWitness ==
    /\ calls = <<"searched", "searched">>
    /\ requests = <<>>
    /\ Len(searchHistory) = 1
    /\ definitions = <<>>
    /\ error = Some(<<"Failed to fetch definition: ", "API error: ", "5", "0", "3">>)

\* C6: a call of handleSearch with a word that is empty after trimming
\* changes nothing and issues no request.
BlankSubmitIsNoOp ==
    [][(calls' # calls /\ Trim(word) = <<>>)
        => UNCHANGED <<word, definitions, isLoading, error, searchHistory,
                       requests>>]_vars

\* a whitespace-only word was submitted while results were on display
BlankSubmitIsNoOpWitness ==
    /\ calls = <<"searched", "returned">>
    /\ word = <<" ">>
    /\ definitions # <<>>
    /\ error = Null
    /\ ~isLoading

\* C7: results and error are never displayed together.
ResultsErrorExclusive ==
    /\ error # Null => definitions = <<>>
    /\ definitions # <<>> => error = Null

\* a search started while results were on display, and it ended in an error
ResultsErrorExclusiveWitness ==
    /\ calls = <<"searched", "searched">>
    /\ requests = <<>>
    /\ Len(searchHistory) = 1
    /\ definitions = <<>>
    /\ error # Null

\* C8: at most one lookup is outstanding, and no event starts a lookup while
\* loading is true.
SingleFlight ==
    /\ [](Len(requests) <= 1)
    /\ [][isLoading => Len(requests') <= Len(requests)]_vars

\* a history entry was clicked while a lookup was in flight
SingleFlightWitness ==
    /\ isLoading
    /\ Len(requests) = 1
    /\ word # requests[1].word

\* C9: the query sent to the lookup collaborator is the trimmed input.
QuerySentIsTrimmed ==
    \A i \in 1..Len(requests) : requests[i].query = Trim(requests[i].word)

\* C10: the history changes only when a search completes with success.
HistoryChangesOnSuccessOnly ==
    [][searchHistory' # searchHistory
        => \E i \in 1..Len(requests) :
             Completes(i) /\ SuccessReply(requests[i].reply[1])]_vars

\* two searches were attempted, neither succeeded, the history is empty
HistoryChangesOnSuccessOnlyWitness ==
    /\ calls = <<"searched", "searched">>
    /\ requests = <<>>
    /\ error # Null
    /\ searchHistory = <<>>

====
